---- MODULE Spec2Model ----
(***************************************************************************)
(* Model of the NIC chat endpoint (src/src/app/api/chat/route.ts in its    *)
(* two snapshots, the streaming route and the diagnostic route) and of the *)
(* chat client that titles conversations (src/src/app/page.tsx).           *)
(*                                                                         *)
(* A text is a sequence of string pieces; the empty text is <<>>, string   *)
(* concatenation is \o.  An optional value is a record [some, text].       *)
(***************************************************************************)
EXTENDS Integers, Sequences, FiniteSets, TLC

VARIABLES
    route,          \* which snapshot of the chat route is deployed
    openaiKey,      \* process.env.OPENAI_API_KEY is set
    fdcKey,         \* process.env.FDC_API_KEY is set
    pc,             \* position of the running handler
    endpoint,       \* "chat" (POST) or "diag" (GET) for the running request
    body,           \* the request body as req.json() will deliver it
    title,          \* let title = null
    foodItems,      \* const foodItems
    idx,            \* position of the for..of loop of fetchFDAInfo
    results,        \* const results = [] of fetchFDAInfo
    calls,          \* external calls issued by the running request, in order
    replies,        \* what the external calls of the running request returned
    responses,      \* responses returned by the running request
    thrown,         \* errors thrown by the stages of the running request
    conversations,  \* client: useState<Conversation[]>
    activeConversation, \* client: id of the active conversation, 0 for null
    chats,          \* client: the `messages` of useChat, kept per chat id
    isConversationSwitching, \* client: the switching flag
    chatError,      \* client: id of the chat whose `error` is set, 0 for none
    origin,         \* client: chat id the running request was sent from, 0 for none
    nextId,         \* client: the next value of Date.now()
    requests,       \* client: number of requests posted so far
    prevLen,        \* per chat id, the number of messages of its previous request
    other,          \* the locals of a second handler that waits at an await
    timers,         \* simulated-reply client: the pending setTimeout callbacks
    isLoading       \* simulated-reply client: useState isLoading

cvars == <<conversations, activeConversation, chats, isConversationSwitching,
           chatError, origin, nextId, requests, prevLen>>

\* what the handlers of the chat routes and the useChat client never touch
xvars == <<other, timers, isLoading>>

vars == <<route, openaiKey, fdcKey, pc, endpoint, body, title, foodItems, idx,
          results, calls, replies, responses, thrown, cvars, xvars>>

(***************************************************************************)
(* Bounds and program constants                                            *)
(***************************************************************************)
MaxShortLen == 2
MaxMessages == 50
MaxNutrients == 5

Routes == {"plain", "title", "stream"}

(***************************************************************************)
(* Values                                                                  *)
(***************************************************************************)
Null == [some |-> FALSE, text |-> <<>>]
Some(t) == [some |-> TRUE, text |-> t]

Msg(r, c) == [isNull |-> FALSE, role |-> r, content |-> c]
NullItem == [isNull |-> TRUE, role |-> "", content |-> <<>>]

Egg == <<"e", "g", "g">>

Items == {NullItem, Msg("user", Egg), Msg("assistant", Egg)}

RECURSIVE SeqsUpTo(_, _)
SeqsUpTo(S, n) ==
    IF n = 0 THEN {<<>>}
    ELSE LET shorter == SeqsUpTo(S, n - 1)
         IN shorter \cup {Append(s, x) : s \in {t \in shorter : Len(t) = n - 1}, x \in S}

LongList(n) == [i \in 1..n |-> IF i % 2 = 1 THEN Msg("user", Egg) ELSE Msg("assistant", Egg)]

MessageLists == SeqsUpTo(Items, MaxShortLen) \cup {LongList(MaxMessages), LongList(MaxMessages + 1)}

\* the `messages` field of a parsed body: an array or some other JSON value
MessagesValues ==
    {[tag |-> t, items |-> <<>>] : t \in {"missing", "null", "object", "string", "number"}}
    \cup {[tag |-> "array", items |-> l] : l \in MessageLists}

Bodies ==
    {[kind |-> k, messages |-> [tag |-> "missing", items |-> <<>>]] : k \in {"unparseable", "null", "scalar"}}
    \cup {[kind |-> "object", messages |-> m] : m \in MessagesValues}

NoBody == [kind |-> "none", messages |-> [tag |-> "missing", items |-> <<>>]]

\* thrown Error objects: a message (possibly empty) and an optional code
NoCode == [some |-> FALSE, text |-> <<>>]
Errors ==
    {[message |-> m, code |-> c] :
        m \in {<<>>, <<"boom">>},
        c \in {NoCode, Some(<<>>), Some(<<"rate_limit">>)}}
TypeError == [message |-> <<"TypeError">>, code |-> NoCode]
SyntaxError == [message |-> <<"SyntaxError">>, code |-> NoCode]

(***************************************************************************)
(* Request Validator                                                       *)
(***************************************************************************)
\* variant: only the model-provider key is tested
KeysMissing_OpenAIOnly(r, okey, fkey) == ~okey

\* the credentials a route reads before it does anything else
KeysMissing(r, okey, fkey) ==
    IF r = "stream" THEN ~okey ELSE (~okey \/ ~fkey)
\* variant: a typeof test instead of Array.isArray
IsArray_Typeof(m) == m.tag \in {"array", "object"}

IsArray(m) == m.tag = "array"
\* variant: the array test comes before the credential test
Validate_ArrayFirst(r, okey, fkey, b) ==
    IF b.kind \in {"unparseable", "null"} THEN "throw"
    ELSE IF ~IsArray(b.messages) THEN "notArray"
    ELSE IF KeysMissing(r, okey, fkey) THEN "config"
    ELSE IF Len(b.messages.items) > MaxMessages THEN "tooMany"
    ELSE "ok"

\* variant: an empty list is refused
Validate_RejectEmpty(r, okey, fkey, b) ==
    IF b.kind \in {"unparseable", "null"} THEN "throw"
    ELSE IF KeysMissing(r, okey, fkey) THEN "config"
    ELSE IF ~IsArray(b.messages) \/ Len(b.messages.items) = 0 THEN "notArray"
    ELSE IF Len(b.messages.items) > MaxMessages THEN "tooMany"
    ELSE "ok"

\* variant: the credentials are tested before the body is read
Validate_KeysBeforeParse(r, okey, fkey, b) ==
    IF KeysMissing(r, okey, fkey) THEN "config"
    ELSE IF b.kind \in {"unparseable", "null"} THEN "throw"
    ELSE IF ~IsArray(b.messages) THEN "notArray"
    ELSE IF Len(b.messages.items) > MaxMessages THEN "tooMany"
    ELSE "ok"

\* variant: the length limit is off by one
Validate_OffByOne(r, okey, fkey, b) ==
    IF b.kind \in {"unparseable", "null"} THEN "throw"
    ELSE IF KeysMissing(r, okey, fkey) THEN "config"
    ELSE IF ~IsArray(b.messages) THEN "notArray"
    ELSE IF Len(b.messages.items) > MaxMessages + 1 THEN "tooMany"
    ELSE "ok"

\* the synchronous prefix of POST, from req.json() to the first external call
Validate(r, okey, fkey, b) ==
    IF b.kind \in {"unparseable", "null"} THEN "throw"
    ELSE IF KeysMissing(r, okey, fkey) THEN "config"
    ELSE IF ~IsArray(b.messages) THEN "notArray"
    ELSE IF Len(b.messages.items) > MaxMessages THEN "tooMany"
    ELSE "ok"

ConfigErrorBody(r) ==
    IF r = "stream" THEN [error |-> <<"OpenAI API key not configured">>]
    ELSE [error |-> <<"Missing API keys">>]
\* variant: the validation message goes under another field
NotArrayBody_Message(r) == [message |-> <<"'messages' must be an array.">>]

NotArrayBody(r) ==
    IF r = "stream" THEN [error |-> <<"Invalid request: 'messages' must be an array.">>]
    ELSE [error |-> <<"'messages' must be an array.">>]

TooManyBody == [error |-> <<"Too many messages provided. Limit to 50.">>]

\* x || d on texts
OrDefault(x, d) == IF x = <<>> THEN d ELSE x
\* variant: the code is passed on without a default
CatchBody_NoDefault(r, err) ==
    IF r = "stream"
    THEN [error   |-> OrDefault(err.message, <<"An error occurred">>),
          details |-> <<"stack">>,
          code    |-> err.code.text]
    ELSE [error |-> OrDefault(err.message, <<"Unexpected error">>),
          stack |-> <<"stack">>,
          code  |-> err.code.text]

\* the body built by the top-level catch
CatchBody(r, err) ==
    IF r = "stream"
    THEN [error   |-> OrDefault(err.message, <<"An error occurred">>),
          details |-> <<"stack">>,
          code    |-> OrDefault(err.code.text, <<"unknown_error">>)]
    ELSE [error |-> OrDefault(err.message, <<"Unexpected error">>),
          stack |-> <<"stack">>,
          code  |-> OrDefault(err.code.text, <<"unknown_error">>)]

Resp(s, b) == [status |-> s, body |-> b]

\* what an external call delivered: a value, or an exception
NoData == [hasFoods |-> FALSE, foods |-> <<>>]
Returned(kind, content, data) == [kind |-> kind, ok |-> TRUE, content |-> content, data |-> data]
Threw(kind) == [kind |-> kind, ok |-> FALSE, content |-> Null, data |-> NoData]

(***************************************************************************)
(* Text helpers                                                            *)
(***************************************************************************)
IsSpace(c) == c \in {" ", "\n", "\t"}

RECURSIVE TrimLeft(_)
TrimLeft(s) == IF s # <<>> /\ IsSpace(Head(s)) THEN TrimLeft(Tail(s)) ELSE s

RECURSIVE TrimRight(_)
TrimRight(s) ==
    IF s # <<>> /\ IsSpace(s[Len(s)]) THEN TrimRight(SubSeq(s, 1, Len(s) - 1)) ELSE s

\* String.prototype.trim
Trim(s) == TrimRight(TrimLeft(s))

\* String.prototype.split(','): an empty text gives one empty piece
RECURSIVE SplitFrom(_, _, _)
SplitFrom(s, i, cur) ==
    IF i > Len(s) THEN <<cur>>
    ELSE IF s[i] = "," THEN <<cur>> \o SplitFrom(s, i + 1, <<>>)
    ELSE SplitFrom(s, i + 1, Append(cur, s[i]))

Split(s) == SplitFrom(s, 1, <<>>)

\* .filter(Boolean) on texts: the empty text is falsy
RECURSIVE FilterBoolean(_)
FilterBoolean(l) ==
    IF l = <<>> THEN <<>>
    ELSE IF Head(l) = <<>> THEN FilterBoolean(Tail(l))
    ELSE <<Head(l)>> \o FilterBoolean(Tail(l))

\* Array.prototype.join on texts
RECURSIVE Join(_, _)
Join(l, sep) ==
    IF l = <<>> THEN <<>>
    ELSE IF Len(l) = 1 THEN l[1]
    ELSE l[1] \o sep \o Join(Tail(l), sep)

(***************************************************************************)
(* Title generation (title route)                                          *)
(***************************************************************************)
TitleInstruction ==
    Msg("system", <<"Generate a short, 3-5 word title based on this user message.">>)

\* variant: the length of the list is not tested
TitleCond_AnyLength(items) ==
    IF Len(items) = 0 THEN "no"
    ELSE IF items[1].isNull THEN "throw"
    ELSE IF items[1].role = "user" THEN "yes"
    ELSE "no"

\* messages.length === 1 && messages[0].role === 'user'; reading .role of a
\* null entry throws
TitleCond(items) ==
    IF Len(items) # 1 THEN "no"
    ELSE IF items[1].isNull THEN "throw"
    ELSE IF items[1].role = "user" THEN "yes"
    ELSE "no"

TitleCall(items) ==
    [kind |-> "title",
     messages |-> <<TitleInstruction, Msg("user", items[1].content)>>,
     query |-> <<>>]
\* variant: the trimmed reply is kept even when it is empty
TitleOf_KeepEmpty(reply) ==
    IF ~reply.some THEN Null ELSE Some(Trim(reply.text))

\* titleCompletion.choices[0].message.content?.trim() || null
TitleOf(reply) ==
    IF ~reply.some THEN Null
    ELSE IF Trim(reply.text) = <<>> THEN Null
    ELSE Some(Trim(reply.text))

TitleReplies ==
    {Null, Some(<<>>), Some(<<" ">>), Some(<<" ", "T", " ">>), Some(<<"T">>)}

(***************************************************************************)
(* Food-item extraction                                                    *)
(***************************************************************************)
ExtractInstruction ==
    Msg("system", <<"Extract individual food items from the user's message. Only return a comma-separated list.">>)

Undefined == [isNull |-> TRUE, role |-> "undefined", content |-> <<>>]

\* variant: the first entry is taken
LastOf_First(items) == IF items = <<>> THEN Undefined ELSE items[1]

\* messages[messages.length - 1]
LastOf(items) == IF items = <<>> THEN Undefined ELSE items[Len(items)]

ExtractCall(items) ==
    [kind |-> "extract", messages |-> <<ExtractInstruction, LastOf(items)>>, query |-> <<>>]

\* variant: empty pieces are kept
FoodItemsOf_NoFilter(reply) ==
    LET pieces == Split(IF reply.some THEN reply.text ELSE <<>>)
    IN [i \in 1..Len(pieces) |-> Trim(pieces[i])]

\* variant: the pieces are not trimmed
FoodItemsOf_NoTrim(reply) ==
    FilterBoolean(Split(IF reply.some THEN reply.text ELSE <<>>))

\* (content ?? '').split(',').map(trim).filter(Boolean)
FoodItemsOf(reply) ==
    LET foodList == IF reply.some THEN reply.text ELSE <<>>
        pieces == Split(foodList)
    IN FilterBoolean([i \in 1..Len(pieces) |-> Trim(pieces[i])])

\* a reply that is a sentence, not a list
Prose == <<"I", " ", "found", " ", "no", " ", "food", " ", "items", ".">>

ExtractReplies ==
    {Null, Some(<<>>), Some(<<",">>), Some(<<"a">>), Some(<<"a", ",", "b">>),
     Some(<<" ", "a", " ", ",", " ", ",", "b">>), Some(<<"a", ",", "a">>),
     Some(Prose)}

(***************************************************************************)
(* Nutrition lookup                                                        *)
(***************************************************************************)
MaxRecNutrients == 6

NutrientNames == <<"Protein", "Fat", "Carbs", "Energy", "Sugar", "Fiber", "Iron", "Zinc">>

Nutrient(k) == [nutrientName |-> NutrientNames[k], value |-> "1", unitName |-> "G"]

FoodRec(k) == [hasNutrients |-> TRUE, foodNutrients |-> [i \in 1..k |-> Nutrient(i)]]
FoodRecBare == [hasNutrients |-> FALSE, foodNutrients |-> <<>>]

\* parsed bodies of the search request
LookupData ==
    {[hasFoods |-> FALSE, foods |-> <<>>],
     [hasFoods |-> TRUE, foods |-> <<>>],
     [hasFoods |-> TRUE, foods |-> <<FoodRecBare>>],
     [hasFoods |-> TRUE, foods |-> <<FoodRec(2)>>],
     [hasFoods |-> TRUE, foods |-> <<FoodRec(MaxRecNutrients), FoodRec(1)>>]}

LookupCall(item) == [kind |-> "lookup", messages |-> <<>>, query |-> item]

\* Array.prototype.slice(0, n)
Slice(l, n) == SubSeq(l, 1, IF Len(l) < n THEN Len(l) ELSE n)

\* data.foods?.length > 0
HasMatch(data) == data.hasFoods /\ Len(data.foods) > 0

\* variant: the whole nutrient list of the first record is kept
NutrientsOf_Unsliced(data) ==
    IF data.foods[1].hasNutrients THEN data.foods[1].foodNutrients ELSE <<>>

\* data.foods[0].foodNutrients?.slice(0, 5) || []
NutrientsOf(data) ==
    IF data.foods[1].hasNutrients
    THEN Slice(data.foods[1].foodNutrients, MaxNutrients)
    ELSE <<>>

\* variant: an item that already has an entry is not pushed again
PushResult_Dedup(res, item, data) ==
    IF HasMatch(data) /\ ~(\E k \in 1..Len(res) : res[k].item = item)
    THEN Append(res, [item |-> item, nutrients |-> NutrientsOf(data)])
    ELSE res

\* the body of one iteration of the loop of fetchFDAInfo, after res.json()
PushResult(res, item, data) ==
    IF HasMatch(data)
    THEN Append(res, [item |-> item, nutrients |-> NutrientsOf(data)])
    ELSE res

(***************************************************************************)
(* Prompt composer                                                         *)
(***************************************************************************)
NutrientText(n) == <<n.nutrientName, ": ", n.value, " ", n.unitName>>

EntryLine(entry) ==
    entry.item \o <<" → ">>
        \o Join([i \in 1..Len(entry.nutrients) |-> NutrientText(entry.nutrients[i])], <<", ">>)

NutritionSummary(res) == Join([i \in 1..Len(res) |-> EntryLine(res[i])], <<"\n">>)

Placeholder == <<"No data found for input foods.">>

\* only the opening sentences of the persona block are kept
Persona(r) ==
    IF r = "plain"
    THEN <<"You are a helpful nutritionist. Use the FDA-backed nutritional data below to inform your response.",
           "\n", "Make sure you complete the following requirements: ">>
    ELSE <<"You are a helpful nutritionist. Use the FDA-backed nutritional data below to inform your response. If data is missing, explain that and offer general advice.">>
\* variant: the placeholder also stands in when no entry has a nutrient
NutritionSection_PlaceholderIfBare(res) ==
    <<"FDA Nutrition Data:", "\n">>
        \o (IF \A k \in 1..Len(res) : res[k].nutrients = <<>>
            THEN Placeholder
            ELSE NutritionSummary(res))

\* variant: no placeholder
NutritionSection_NoPlaceholder(res) ==
    <<"FDA Nutrition Data:", "\n">> \o NutritionSummary(res)

NutritionSection(res) ==
    <<"FDA Nutrition Data:", "\n">> \o OrDefault(NutritionSummary(res), Placeholder)

\* variant: the system messages are put after the caller's messages
EnhancedMessages_SystemLast(r, res, items) ==
    items \o <<Msg("system", Persona(r)), Msg("system", NutritionSection(res))>>

EnhancedMessages(r, res, items) ==
    <<Msg("system", Persona(r)), Msg("system", NutritionSection(res))>> \o items

CompleteCall(msgs) == [kind |-> "complete", messages |-> msgs, query |-> <<>>]

CompletionReplies == {Null, Some(<<"ok">>)}

SuccessBody(r, t, content) ==
    IF r = "plain" THEN [json |-> content]
    ELSE IF r = "title" THEN [title |-> t, message |-> content]
    ELSE [stream |-> content]

\* what the external services deliver: every case for a request posted from
\* outside, a few representative cases for a request posted by the client
ErrorsSeen ==
    IF origin = 0 /\ other.pc = "none" THEN Errors ELSE {[message |-> <<"boom">>, code |-> NoCode]}

TitleRepliesSeen ==
    IF other.pc # "none" THEN {Some(<<" ", "T", " ">>)}
    ELSE IF origin = 0 THEN TitleReplies ELSE {Null, Some(<<" ", "T", " ">>)}

\* the client's requests are followed with a reply that names no food
ExtractRepliesSeen ==
    IF other.pc # "none" THEN {Null, Some(<<"a">>)}
    ELSE IF origin = 0 THEN ExtractReplies ELSE {Null}

LookupDataSeen ==
    IF other.pc # "none"
    THEN {[hasFoods |-> FALSE, foods |-> <<>>], [hasFoods |-> TRUE, foods |-> <<FoodRec(2)>>]}
    ELSE LookupData

CompletionRepliesSeen ==
    IF origin = 0 /\ other.pc = "none" THEN CompletionReplies ELSE {Some(<<"ok">>)}

\* the bodies posted while two handlers are followed
TwoHandlerBodies ==
    {[kind |-> "object", messages |-> [tag |-> "array", items |-> <<Msg("user", Egg)>>]],
     [kind |-> "object", messages |-> [tag |-> "array", items |-> <<Msg("user", Egg), Msg("assistant", Egg)>>]],
     [kind |-> "object", messages |-> [tag |-> "string", items |-> <<>>]]}

BodiesSeen == IF other.pc = "none" THEN Bodies ELSE TwoHandlerBodies

(***************************************************************************)
(* Chat client with generated titles (page.tsx, the useChat snapshot with  *)
(* titleGenerated)                                                         *)
(***************************************************************************)
\* sends, retries and new conversations that are followed
MaxOps == 3
TitleCut == 30

ChatIds == 1..(MaxOps + 1)

\* what the user types
Contents == {Egg}

NewConversation(id) ==
    [id |-> id, title |-> <<"New conversation">>, titleGenerated |-> FALSE, messages |-> <<>>]

\* content.substring(0, 30) + (content.length > 30 ? "..." : "")
TempTitle(content) ==
    SubSeq(content, 1, IF Len(content) < TitleCut THEN Len(content) ELSE TitleCut)
        \o (IF Len(content) > TitleCut THEN <<"...">> ELSE <<>>)

\* the effect that copies the messages of useChat into the active conversation
UpdateEffect(convs, active, switching, msgs) ==
    IF active # 0 /\ ~switching /\ Len(msgs) > 0
    THEN [i \in 1..Len(convs) |->
            IF convs[i].id = active
            THEN [convs[i] EXCEPT
                    !.title = IF Len(convs[i].messages) = 0 /\ msgs[1].role = "user"
                                 /\ ~convs[i].titleGenerated
                              THEN TempTitle(msgs[1].content)
                              ELSE @,
                    !.messages = msgs]
            ELSE convs[i]]
    ELSE convs

\* onFinish: takes the title of the response data unless one was generated
OnFinish(convs, active, dataTitle) ==
    IF active # 0
    THEN [i \in 1..Len(convs) |->
            IF convs[i].id = active /\ dataTitle.some /\ dataTitle.text # <<>>
               /\ ~convs[i].titleGenerated
            THEN [convs[i] EXCEPT !.title = dataTitle.text, !.titleGenerated = TRUE]
            ELSE convs[i]]
    ELSE convs

\* conversations.find((conv) => conv.id === id)
FindConv(convs, id) == {i \in 1..Len(convs) : convs[i].id = id}

RECURSIVE FilterOut(_, _)
FilterOut(convs, id) ==
    IF convs = <<>> THEN <<>>
    ELSE IF Head(convs).id = id THEN FilterOut(Tail(convs), id)
    ELSE <<Head(convs)>> \o FilterOut(Tail(convs), id)

\* the request body useChat posts
ChatBody(msgs) == [kind |-> "object", messages |-> [tag |-> "array", items |-> msgs]]

\* no second handler
NoOther ==
    [pc |-> "none", endpoint |-> "none", body |-> NoBody, title |-> Null, foodItems |-> <<>>,
     idx |-> 0, results |-> <<>>, calls |-> <<>>, replies |-> <<>>, responses |-> <<>>,
     thrown |-> <<>>]

Start(o) ==
    /\ other = o
    /\ timers = <<>>
    /\ isLoading = FALSE
    /\ route \in Routes
    /\ openaiKey \in BOOLEAN
    /\ fdcKey \in BOOLEAN
    /\ pc = "idle"
    /\ endpoint = "none"
    /\ body = NoBody
    /\ title = Null
    /\ foodItems = <<>>
    /\ idx = 0
    /\ results = <<>>
    /\ calls = <<>>
    /\ replies = <<>>
    /\ responses = <<>>
    /\ thrown = <<>>
    /\ conversations = <<NewConversation(1)>>
    /\ activeConversation = 1
    /\ chats = [i \in ChatIds |-> <<>>]
    /\ isConversationSwitching = FALSE
    /\ chatError = 0
    /\ origin = 0
    /\ nextId = 2
    /\ requests = 0
    /\ prevLen = [i \in ChatIds |-> 0]

Init == Start(NoOther)

\* a request arrives at the chat endpoint
Receive ==
    /\ pc \in {"idle", "done"}
    /\ \E b \in BodiesSeen : body' = b
    /\ pc' = "received"
    /\ endpoint' = "chat"
    /\ title' = Null
    /\ foodItems' = <<>>
    /\ idx' = 0
    /\ results' = <<>>
    /\ calls' = <<>>
    /\ replies' = <<>>
    /\ responses' = <<>>
    /\ thrown' = <<>>
    /\ UNCHANGED <<xvars, cvars, route, openaiKey, fdcKey>>

\* variant: the catch records the error and returns nothing
Catch_NoResponse(stage, err) ==
    /\ thrown' = Append(thrown, [stage |-> stage, err |-> err])
    /\ responses' = responses
    /\ pc' = "done"

\* the top-level catch
Catch(stage, err) ==
    /\ thrown' = Append(thrown, [stage |-> stage, err |-> err])
    /\ responses' = Append(responses, Resp(500, CatchBody(route, err)))
    /\ pc' = "done"

\* req.json() rejects, or destructuring a null body throws
ParseFails ==
    /\ pc = "received"
    /\ Validate(route, openaiKey, fdcKey, body) = "throw"
    /\ Catch("parse", IF body.kind = "null" THEN TypeError ELSE SyntaxError)
    /\ UNCHANGED <<xvars, cvars, route, openaiKey, fdcKey, replies, endpoint, body, title, foodItems, idx, results, calls>>

RejectMissingKeys ==
    /\ pc = "received"
    /\ Validate(route, openaiKey, fdcKey, body) = "config"
    /\ responses' = Append(responses, Resp(500, ConfigErrorBody(route)))
    /\ pc' = "done"
    /\ UNCHANGED <<xvars, cvars, route, openaiKey, fdcKey, replies, endpoint, body, title, foodItems, idx, results, calls, thrown>>

RejectNotArray ==
    /\ pc = "received"
    /\ Validate(route, openaiKey, fdcKey, body) = "notArray"
    /\ responses' = Append(responses, Resp(400, NotArrayBody(route)))
    /\ pc' = "done"
    /\ UNCHANGED <<xvars, cvars, route, openaiKey, fdcKey, replies, endpoint, body, title, foodItems, idx, results, calls, thrown>>

RejectTooMany ==
    /\ pc = "received"
    /\ Validate(route, openaiKey, fdcKey, body) = "tooMany"
    /\ responses' = Append(responses, Resp(400, TooManyBody))
    /\ pc' = "done"
    /\ UNCHANGED <<xvars, cvars, route, openaiKey, fdcKey, replies, endpoint, body, title, foodItems, idx, results, calls, thrown>>

MessagesOf(b) == b.messages.items

\* issue the extraction call (Step 1)
IssueExtraction ==
    /\ calls' = Append(calls, ExtractCall(MessagesOf(body)))
    /\ pc' = "awaitExtract"

\* compose the prompt and issue the primary completion call (Steps 3 and 4)
IssueCompletion(res) ==
    /\ calls' = Append(calls, CompleteCall(EnhancedMessages(route, res, MessagesOf(body))))
    /\ pc' = "awaitComplete"

\* evaluating the title condition reads .role of a null first entry
TitleCondThrows ==
    /\ pc = "received"
    /\ route = "title"
    /\ Validate(route, openaiKey, fdcKey, body) = "ok"
    /\ TitleCond(MessagesOf(body)) = "throw"
    /\ Catch("titleCond", TypeError)
    /\ UNCHANGED <<xvars, cvars, route, openaiKey, fdcKey, replies, endpoint, body, title, foodItems, idx, results, calls>>

BeginTitle ==
    /\ pc = "received"
    /\ route = "title"
    /\ Validate(route, openaiKey, fdcKey, body) = "ok"
    /\ TitleCond(MessagesOf(body)) = "yes"
    /\ calls' = Append(calls, TitleCall(MessagesOf(body)))
    /\ pc' = "awaitTitle"
    /\ UNCHANGED <<xvars, cvars, route, openaiKey, fdcKey, replies, endpoint, body, title, foodItems, idx, results, responses, thrown>>

TitleReturns ==
    /\ pc = "awaitTitle"
    /\ \E reply \in TitleRepliesSeen :
        /\ title' = TitleOf(reply)
        /\ replies' = Append(replies, Returned("title", reply, NoData))
    /\ IssueExtraction
    /\ UNCHANGED <<xvars, cvars, route, openaiKey, fdcKey, endpoint, body, foodItems, idx, results, responses, thrown>>

\* variant: the failure of the title call reaches the top-level catch
TitleThrows_Propagates ==
    /\ pc = "awaitTitle"
    /\ \E err \in ErrorsSeen : Catch("title", err)
    /\ replies' = Append(replies, Threw("title"))
    /\ UNCHANGED <<xvars, cvars, route, openaiKey, fdcKey, endpoint, body, title, foodItems, idx, results, calls>>

\* the inner catch only logs a warning
TitleThrows ==
    /\ pc = "awaitTitle"
    /\ \E err \in ErrorsSeen : thrown' = Append(thrown, [stage |-> "title", err |-> err])
    /\ replies' = Append(replies, Threw("title"))
    /\ IssueExtraction
    /\ UNCHANGED <<xvars, cvars, route, openaiKey, fdcKey, endpoint, body, title, foodItems, idx, results, responses>>

\* variant: the extraction call is issued before the body has been validated
BeginExtraction_Unvalidated ==
    /\ pc = "received"
    /\ route \in {"plain", "title"}
    /\ Validate(route, openaiKey, fdcKey, body) \in {"ok", "notArray", "tooMany"}
    /\ route = "title" => TitleCond(MessagesOf(body)) = "no"
    /\ IssueExtraction
    /\ UNCHANGED <<xvars, cvars, route, openaiKey, fdcKey, replies, endpoint, body, title, foodItems, idx, results, responses, thrown>>

BeginExtraction ==
    /\ pc = "received"
    /\ route \in {"plain", "title"}
    /\ Validate(route, openaiKey, fdcKey, body) = "ok"
    /\ route = "title" => TitleCond(MessagesOf(body)) = "no"
    /\ IssueExtraction
    /\ UNCHANGED <<xvars, cvars, route, openaiKey, fdcKey, replies, endpoint, body, title, foodItems, idx, results, responses, thrown>>

\* variant: the lookups of all items are issued at once
ExtractReturns_Concurrent ==
    /\ pc = "awaitExtract"
    /\ \E reply \in ExtractRepliesSeen :
        LET items == FoodItemsOf(reply) IN
        /\ foodItems' = items
        /\ replies' = Append(replies, Returned("extract", reply, NoData))
        /\ results' = <<>>
        /\ IF items = <<>>
           THEN /\ idx' = 0
                /\ IssueCompletion(<<>>)
           ELSE /\ idx' = 1
                /\ calls' = calls \o [i \in 1..Len(items) |-> LookupCall(items[i])]
                /\ pc' = "awaitFetch"
    /\ UNCHANGED <<xvars, cvars, route, openaiKey, fdcKey, endpoint, body, title, responses, thrown>>

\* the extraction call returns; fetchFDAInfo starts its loop
ExtractReturns ==
    /\ pc = "awaitExtract"
    /\ \E reply \in ExtractRepliesSeen :
        LET items == FoodItemsOf(reply) IN
        /\ foodItems' = items
        /\ replies' = Append(replies, Returned("extract", reply, NoData))
        /\ results' = <<>>
        /\ IF items = <<>>
           THEN /\ idx' = 0
                /\ IssueCompletion(<<>>)
           ELSE /\ idx' = 1
                /\ calls' = Append(calls, LookupCall(items[1]))
                /\ pc' = "awaitFetch"
    /\ UNCHANGED <<xvars, cvars, route, openaiKey, fdcKey, endpoint, body, title, responses, thrown>>
\* variant: the extraction failure is swallowed like the title failure
ExtractThrows_Swallow ==
    /\ pc = "awaitExtract"
    /\ \E err \in ErrorsSeen : thrown' = Append(thrown, [stage |-> "extract", err |-> err])
    /\ replies' = Append(replies, Threw("extract"))
    /\ foodItems' = <<>>
    /\ results' = <<>>
    /\ idx' = 0
    /\ IssueCompletion(<<>>)
    /\ UNCHANGED <<xvars, cvars, route, openaiKey, fdcKey, endpoint, body, title, responses>>

ExtractThrows ==
    /\ pc = "awaitExtract"
    /\ \E err \in ErrorsSeen : Catch("extract", err)
    /\ replies' = Append(replies, Threw("extract"))
    /\ UNCHANGED <<xvars, cvars, route, openaiKey, fdcKey, endpoint, body, title, foodItems, idx, results, calls>>

\* await fetch(...) resolves
FetchResolves ==
    /\ pc = "awaitFetch"
    /\ pc' = "awaitJson"
    /\ UNCHANGED <<xvars, cvars, route, openaiKey, fdcKey, replies, endpoint, body, title, foodItems, idx, results, calls, responses, thrown>>

\* await fetch(...) rejects: nothing in fetchFDAInfo catches it
FetchRejects ==
    /\ pc = "awaitFetch"
    /\ \E err \in ErrorsSeen : Catch("fetch", err)
    /\ replies' = Append(replies, Threw("lookup"))
    /\ UNCHANGED <<xvars, cvars, route, openaiKey, fdcKey, endpoint, body, title, foodItems, idx, results, calls>>

\* await res.json() resolves: the rest of the loop body, then the next item
JsonParsed ==
    /\ pc = "awaitJson"
    /\ \E data \in LookupDataSeen :
        LET res == PushResult(results, foodItems[idx], data) IN
        /\ results' = res
        /\ replies' = Append(replies, Returned("lookup", Null, data))
        /\ IF idx < Len(foodItems)
           THEN /\ idx' = idx + 1
                /\ calls' = Append(calls, LookupCall(foodItems[idx + 1]))
                /\ pc' = "awaitFetch"
           ELSE /\ idx' = idx
                /\ IssueCompletion(res)
    /\ UNCHANGED <<xvars, cvars, route, openaiKey, fdcKey, endpoint, body, title, foodItems, responses, thrown>>

\* await res.json() rejects
JsonFails ==
    /\ pc = "awaitJson"
    /\ \E err \in ErrorsSeen : Catch("json", err)
    /\ replies' = Append(replies, Threw("lookup"))
    /\ UNCHANGED <<xvars, cvars, route, openaiKey, fdcKey, endpoint, body, title, foodItems, idx, results, calls>>

\* streaming route: messages.map(...) reads .role of every entry
StreamMapThrows ==
    /\ pc = "received"
    /\ route = "stream"
    /\ Validate(route, openaiKey, fdcKey, body) = "ok"
    /\ \E i \in 1..Len(MessagesOf(body)) : MessagesOf(body)[i].isNull
    /\ Catch("map", TypeError)
    /\ UNCHANGED <<xvars, cvars, route, openaiKey, fdcKey, replies, endpoint, body, title, foodItems, idx, results, calls>>

\* streaming route: the caller's messages go to the completion call as they are
BeginStream ==
    /\ pc = "received"
    /\ route = "stream"
    /\ Validate(route, openaiKey, fdcKey, body) = "ok"
    /\ \A i \in 1..Len(MessagesOf(body)) : ~MessagesOf(body)[i].isNull
    /\ calls' = Append(calls, CompleteCall(MessagesOf(body)))
    /\ pc' = "awaitComplete"
    /\ UNCHANGED <<xvars, cvars, route, openaiKey, fdcKey, replies, endpoint, body, title, foodItems, idx, results, responses, thrown>>

CompletionReturns ==
    /\ pc = "awaitComplete"
    /\ \E content \in CompletionRepliesSeen :
        /\ responses' = Append(responses, Resp(200, SuccessBody(route, title, content)))
        /\ replies' = Append(replies, Returned("complete", content, NoData))
    /\ pc' = "done"
    /\ UNCHANGED <<xvars, cvars, route, openaiKey, fdcKey, endpoint, body, title, foodItems, idx, results, calls, thrown>>

\* variant: a failed completion call is issued once more
CompletionThrows_Retry ==
    /\ pc = "awaitComplete"
    /\ replies' = Append(replies, Threw("complete"))
    /\ \E err \in ErrorsSeen :
        IF Len(thrown) = 0
        THEN /\ thrown' = Append(thrown, [stage |-> "complete", err |-> err])
             /\ calls' = Append(calls, calls[Len(calls)])
             /\ UNCHANGED <<pc, responses>>
        ELSE /\ Catch("complete", err)
             /\ UNCHANGED calls
    /\ UNCHANGED <<xvars, cvars, route, openaiKey, fdcKey, endpoint, body, title, foodItems, idx, results>>

CompletionThrows ==
    /\ pc = "awaitComplete"
    /\ \E err \in ErrorsSeen : Catch("complete", err)
    /\ replies' = Append(replies, Threw("complete"))
    /\ UNCHANGED <<xvars, cvars, route, openaiKey, fdcKey, endpoint, body, title, foodItems, idx, results, calls>>

(***************************************************************************)
(* Diagnostic endpoint                                                     *)
(***************************************************************************)
DiagCall ==
    [kind |-> "diag",
     messages |-> <<Msg("user", <<"Perform a simple test of API connectivity. Respond with exactly: 'API Test Successful'">>)>>,
     query |-> <<>>]

DiagReplies == {Null, Some(<<"API Test Successful">>), Some(<<"hello">>)}

\* variant: the success body also carries an error field
DiagSuccessBody_WithError(content) ==
    [success |-> TRUE,
     response |-> IF content = Some(<<"API Test Successful">>)
                  THEN <<"Connectivity verified">>
                  ELSE <<"Unexpected API response">>,
     error |-> <<>>]

DiagSuccessBody(content) ==
    [success |-> TRUE,
     response |-> IF content = Some(<<"API Test Successful">>)
                  THEN <<"Connectivity verified">>
                  ELSE <<"Unexpected API response">>]

DiagStart ==
    /\ pc \in {"idle", "done"}
    /\ endpoint' = "diag"
    /\ body' = NoBody
    /\ title' = Null
    /\ foodItems' = <<>>
    /\ idx' = 0
    /\ results' = <<>>
    /\ replies' = <<>>
    /\ thrown' = <<>>

DiagRejectNoKey ==
    /\ DiagStart
    /\ ~openaiKey
    /\ calls' = <<>>
    /\ responses' = <<Resp(401, [success |-> FALSE, error |-> <<"OpenAI API key is not configured">>])>>
    /\ pc' = "done"
    /\ UNCHANGED <<xvars, cvars, route, openaiKey, fdcKey>>

DiagBegin ==
    /\ DiagStart
    /\ openaiKey
    /\ calls' = <<DiagCall>>
    /\ responses' = <<>>
    /\ pc' = "awaitDiag"
    /\ UNCHANGED <<xvars, cvars, route, openaiKey, fdcKey>>

DiagReturns ==
    /\ pc = "awaitDiag"
    /\ \E content \in DiagReplies :
        /\ responses' = Append(responses, Resp(200, DiagSuccessBody(content)))
        /\ replies' = Append(replies, Returned("diag", content, NoData))
    /\ pc' = "done"
    /\ UNCHANGED <<xvars, cvars, route, openaiKey, fdcKey, endpoint, body, title, foodItems, idx, results, calls, thrown>>

DiagThrows ==
    /\ pc = "awaitDiag"
    /\ \E err \in ErrorsSeen :
        /\ replies' = Append(replies, Threw("diag"))
        /\ thrown' = Append(thrown, [stage |-> "diag", err |-> err])
        /\ responses' = Append(responses, Resp(500, [success |-> FALSE, error |-> err.message]))
    /\ pc' = "done"
    /\ UNCHANGED <<xvars, cvars, route, openaiKey, fdcKey, endpoint, body, title, foodItems, idx, results, calls>>

(***************************************************************************)
(* Client actions                                                          *)
(***************************************************************************)
\* the handler starts on a body posted by useChat
StartRequest(msgs) ==
    /\ body' = ChatBody(msgs)
    /\ pc' = "received"
    /\ endpoint' = "chat"
    /\ title' = Null
    /\ foodItems' = <<>>
    /\ idx' = 0
    /\ results' = <<>>
    /\ calls' = <<>>
    /\ replies' = <<>>
    /\ responses' = <<>>
    /\ thrown' = <<>>

\* the response has been consumed by useChat
EndRequest ==
    /\ body' = NoBody
    /\ pc' = "idle"
    /\ endpoint' = "none"
    /\ title' = Null
    /\ foodItems' = <<>>
    /\ idx' = 0
    /\ results' = <<>>
    /\ calls' = <<>>
    /\ replies' = <<>>
    /\ responses' = <<>>
    /\ thrown' = <<>>

\* the two effects that run after activeConversation has changed: the update
\* effect sees the values of the render, then the sync effect loads the
\* conversation into useChat and raises the switching flag
ActiveChanged(convs, active, chs) ==
    /\ conversations' = UpdateEffect(convs, active, isConversationSwitching, chs[active])
    /\ IF active # 0 /\ ~isConversationSwitching /\ FindConv(convs, active) # {}
       THEN /\ isConversationSwitching' = TRUE
            /\ chats' = [chs EXCEPT ![active] = convs[CHOOSE i \in FindConv(convs, active) : TRUE].messages]
       ELSE /\ isConversationSwitching' = isConversationSwitching
            /\ chats' = chs

\* handleMessageSubmit, then handleSubmit of useChat
SubmitMessage ==
    /\ pc = "idle"
    /\ activeConversation # 0
    /\ (nextId - 2) + requests < MaxOps
    /\ \E c \in Contents :
        LET msgs == Append(chats[activeConversation], Msg("user", c)) IN
        /\ chats' = [chats EXCEPT ![activeConversation] = msgs]
        /\ conversations' = UpdateEffect(conversations, activeConversation, isConversationSwitching, msgs)
        /\ StartRequest(msgs)
    /\ origin' = activeConversation
    /\ requests' = requests + 1
    /\ chatError' = 0
    /\ UNCHANGED <<xvars, route, openaiKey, fdcKey, activeConversation, isConversationSwitching, nextId, prevLen>>

\* the retry button: reload() of useChat posts the messages again
Reload ==
    /\ pc = "idle"
    /\ activeConversation # 0
    /\ chatError = activeConversation
    /\ (nextId - 2) + requests < MaxOps
    /\ chats[activeConversation] # <<>>
    /\ LET cur == chats[activeConversation]
           msgs == IF cur[Len(cur)].role = "assistant" THEN SubSeq(cur, 1, Len(cur) - 1) ELSE cur
       IN /\ chats' = [chats EXCEPT ![activeConversation] = msgs]
          /\ conversations' = UpdateEffect(conversations, activeConversation, isConversationSwitching, msgs)
          /\ StartRequest(msgs)
    /\ origin' = activeConversation
    /\ requests' = requests + 1
    /\ chatError' = 0
    /\ UNCHANGED <<xvars, route, openaiKey, fdcKey, activeConversation, isConversationSwitching, nextId, prevLen>>

\* a 200 response: useChat appends the assistant message and calls onFinish;
\* whether `data` carries the title of the response, and whether the callback
\* sees the conversation of the request or the one active now, is left open
ResponseOk ==
    /\ pc = "done"
    /\ origin # 0
    /\ responses[Len(responses)].status = 200
    /\ \E dataTitle \in {Null, responses[Len(responses)].body.title},
          target \in {origin, activeConversation} :
        LET chs == [chats EXCEPT ![origin] = Append(@, Msg("assistant", <<"reply">>))] IN
        /\ chats' = chs
        /\ conversations' =
               UpdateEffect(OnFinish(conversations, target, dataTitle), activeConversation,
                            isConversationSwitching,
                            IF activeConversation = 0 THEN <<>> ELSE chs[activeConversation])
    /\ prevLen' = [prevLen EXCEPT ![origin] = Len(MessagesOf(body))]
    /\ origin' = 0
    /\ EndRequest
    /\ UNCHANGED <<xvars, route, openaiKey, fdcKey, activeConversation, isConversationSwitching, chatError, nextId, requests>>

\* a failure response: useChat sets `error`; it keeps or takes back the
\* message that was sent
ResponseError ==
    /\ pc = "done"
    /\ origin # 0
    /\ responses[Len(responses)].status # 200
    /\ \E restore \in BOOLEAN :
        LET cur == chats[origin]
            chs == IF restore /\ cur # <<>>
                   THEN [chats EXCEPT ![origin] = SubSeq(cur, 1, Len(cur) - 1)]
                   ELSE chats
        IN /\ chats' = chs
           /\ conversations' =
                  UpdateEffect(conversations, activeConversation, isConversationSwitching,
                               IF activeConversation = 0 THEN <<>> ELSE chs[activeConversation])
    /\ chatError' = origin
    /\ prevLen' = [prevLen EXCEPT ![origin] = Len(MessagesOf(body))]
    /\ origin' = 0
    /\ EndRequest
    /\ UNCHANGED <<xvars, route, openaiKey, fdcKey, activeConversation, isConversationSwitching, nextId, requests>>

\* createNewConversation from the sidebar button
CreateConversation ==
    /\ (nextId - 2) + requests < MaxOps
    /\ LET convs == <<NewConversation(nextId)>> \o conversations
           chs == IF activeConversation # 0
                  THEN [chats EXCEPT ![activeConversation] = <<>>]
                  ELSE chats
       IN ActiveChanged(convs, nextId, chs)
    /\ activeConversation' = nextId
    /\ nextId' = nextId + 1
    /\ UNCHANGED <<xvars, route, openaiKey, fdcKey, pc, endpoint, body, title, foodItems, idx, results,
                   calls, replies, responses, thrown, chatError, origin, prevLen, requests>>

\* a click on a conversation of the sidebar
SelectConversation ==
    /\ \E i \in 1..Len(conversations) :
        /\ conversations[i].id # activeConversation
        /\ activeConversation' = conversations[i].id
        /\ ActiveChanged(conversations, conversations[i].id, chats)
    /\ UNCHANGED <<xvars, route, openaiKey, fdcKey, pc, endpoint, body, title, foodItems, idx, results,
                   calls, replies, responses, thrown, chatError, origin, nextId, prevLen, requests>>

\* deleteConversation from the sidebar: the conversation is filtered out;
\* if it was the active one, the first remaining conversation becomes active,
\* or a new conversation is created when none remains
DeleteConversation ==
    /\ \E i \in 1..Len(conversations) :
        LET id == conversations[i].id
            rest == FilterOut(conversations, id)
        IN IF id # activeConversation
           THEN /\ conversations' = rest
                /\ UNCHANGED <<activeConversation, chats, isConversationSwitching, nextId>>
           ELSE IF rest # <<>>
           THEN /\ activeConversation' = rest[1].id
                /\ ActiveChanged(rest, rest[1].id, chats)
                /\ UNCHANGED nextId
           ELSE /\ (nextId - 2) + requests < MaxOps
                /\ ActiveChanged(<<NewConversation(nextId)>>, nextId,
                                 [chats EXCEPT ![activeConversation] = <<>>])
                /\ activeConversation' = nextId
                /\ nextId' = nextId + 1
    /\ UNCHANGED <<xvars, route, openaiKey, fdcKey, pc, endpoint, body, title, foodItems, idx, results,
                   calls, replies, responses, thrown, chatError, origin, prevLen, requests>>

\* the 100 ms timer of the sync effect; the update effect runs again
SwitchTimerFires ==
    /\ isConversationSwitching
    /\ isConversationSwitching' = FALSE
    /\ conversations' =
           UpdateEffect(conversations, activeConversation, FALSE,
                        IF activeConversation = 0 THEN <<>> ELSE chats[activeConversation])
    /\ UNCHANGED <<xvars, route, openaiKey, fdcKey, pc, endpoint, body, title, foodItems, idx, results,
                   calls, replies, responses, thrown, activeConversation, chats, chatError,
                   origin, nextId, prevLen, requests>>

Next ==
    \/ Receive
    \/ ParseFails
    \/ RejectMissingKeys
    \/ RejectNotArray
    \/ RejectTooMany
    \/ TitleCondThrows
    \/ BeginTitle
    \/ TitleReturns
    \/ TitleThrows
    \/ BeginExtraction
    \/ ExtractReturns
    \/ ExtractThrows
    \/ FetchResolves
    \/ FetchRejects
    \/ JsonParsed
    \/ JsonFails
    \/ StreamMapThrows
    \/ BeginStream
    \/ CompletionReturns
    \/ CompletionThrows
    \/ DiagRejectNoKey
    \/ DiagBegin
    \/ DiagReturns
    \/ DiagThrows

Spec == Init /\ [][Next]_vars

\* the steps of a handler that has started
HandlerStep ==
    \/ ParseFails
    \/ RejectMissingKeys
    \/ RejectNotArray
    \/ RejectTooMany
    \/ TitleCondThrows
    \/ BeginTitle
    \/ TitleReturns
    \/ TitleThrows
    \/ BeginExtraction
    \/ ExtractReturns
    \/ ExtractThrows
    \/ FetchResolves
    \/ FetchRejects
    \/ JsonParsed
    \/ JsonFails
    \/ StreamMapThrows
    \/ BeginStream
    \/ CompletionReturns
    \/ CompletionThrows
    \/ DiagReturns
    \/ DiagThrows

\* every awaited call returns or throws, and the code between two awaits runs
FairSpec == Init /\ [][Next]_vars /\ WF_vars(HandlerStep)

\* the locals of the handler that runs
Running ==
    [pc |-> pc, endpoint |-> endpoint, body |-> body, title |-> title, foodItems |-> foodItems,
     idx |-> idx, results |-> results, calls |-> calls, replies |-> replies,
     responses |-> responses, thrown |-> thrown]

\* variant: `results` is one array of the module, not a local of fetchFDAInfo
Switch_SharedResults ==
    /\ other.pc # "none"
    /\ other' = Running
    /\ pc' = other.pc
    /\ endpoint' = other.endpoint
    /\ body' = other.body
    /\ title' = other.title
    /\ foodItems' = other.foodItems
    /\ idx' = other.idx
    /\ results' = results
    /\ calls' = other.calls
    /\ replies' = other.replies
    /\ responses' = other.responses
    /\ thrown' = other.thrown
    /\ UNCHANGED <<cvars, timers, isLoading, route, openaiKey, fdcKey>>

\* the event loop leaves the handler that runs at its await and goes on with
\* the other one; the locals of each stay its own
Switch ==
    /\ other.pc # "none"
    /\ other' = Running
    /\ pc' = other.pc
    /\ endpoint' = other.endpoint
    /\ body' = other.body
    /\ title' = other.title
    /\ foodItems' = other.foodItems
    /\ idx' = other.idx
    /\ results' = other.results
    /\ calls' = other.calls
    /\ replies' = other.replies
    /\ responses' = other.responses
    /\ thrown' = other.thrown
    /\ UNCHANGED <<cvars, timers, isLoading, route, openaiKey, fdcKey>>

\* two handlers of the chat route with both keys configured
TwoHandlersInit ==
    /\ Start([NoOther EXCEPT !.pc = "idle"])
    /\ openaiKey
    /\ fdcKey

TwoHandlersNext ==
    \/ Receive
    \/ Switch
    \/ RejectNotArray
    \/ BeginTitle
    \/ TitleReturns
    \/ TitleThrows
    \/ BeginExtraction
    \/ ExtractReturns
    \/ ExtractThrows
    \/ FetchResolves
    \/ FetchRejects
    \/ JsonParsed
    \/ JsonFails
    \/ BeginStream
    \/ CompletionReturns
    \/ CompletionThrows

TwoHandlersSpec == TwoHandlersInit /\ [][TwoHandlersNext]_vars

\* the client talking to the title route with both keys configured
ClientInit ==
    /\ Init
    /\ route = "title"
    /\ openaiKey
    /\ fdcKey

ClientNext ==
    \/ SubmitMessage
    \/ Reload
    \/ ResponseOk
    \/ ResponseError
    \/ CreateConversation
    \/ SelectConversation
    \/ DeleteConversation
    \/ SwitchTimerFires
    \/ BeginTitle
    \/ TitleReturns
    \/ TitleThrows
    \/ BeginExtraction
    \/ ExtractReturns
    \/ ExtractThrows
    \/ CompletionReturns
    \/ CompletionThrows

ClientSpec == ClientInit /\ [][ClientNext]_vars

(***************************************************************************)
(* Chat client with simulated replies (page.tsx, the first snapshot)       *)
(***************************************************************************)
svars == <<route, openaiKey, fdcKey, pc, endpoint, body, title, foodItems, idx,
           results, calls, replies, responses, thrown>>

\* what the simulated-reply client never touches
uvars == <<svars, other, chats, isConversationSwitching, chatError, origin, prevLen>>

SimConversation(id) == [id |-> id, title |-> <<"New conversation">>, messages |-> <<>>]

\* a Message; n stands for its Date.now() id
SimMessage(n, r, c) == [id |-> n, role |-> r, content |-> c]

SimIds(convs) == {convs[i].id : i \in 1..Len(convs)}

\* conversations.filter((conv) => conv.id !== id)
RECURSIVE SimFilterOut(_, _)
SimFilterOut(convs, id) ==
    IF convs = <<>> THEN <<>>
    ELSE IF Head(convs).id = id THEN SimFilterOut(Tail(convs), id)
    ELSE <<Head(convs)>> \o SimFilterOut(Tail(convs), id)

\* updatedConversations of handleSendMessage
WithUserMessage(convs, active, n, text) ==
    [i \in 1..Len(convs) |->
        IF convs[i].id = active
        THEN [convs[i] EXCEPT
                !.title = IF Len(convs[i].messages) = 0 THEN TempTitle(text) ELSE @,
                !.messages = Append(@, SimMessage(n, "user", text))]
        ELSE convs[i]]

\* finalConversations of the setTimeout callback
WithAssistantMessage(convs, active, n, text) ==
    [i \in 1..Len(convs) |->
        IF convs[i].id = active
        THEN [convs[i] EXCEPT
                !.messages = Append(@, SimMessage(n, "assistant", <<"This is a simulated response to: ">> \o text))]
        ELSE convs[i]]

\* the state after the mount effect has created the first conversation
SimInit ==
    /\ route = "plain"
    /\ openaiKey = TRUE
    /\ fdcKey = TRUE
    /\ pc = "idle"
    /\ endpoint = "none"
    /\ body = NoBody
    /\ title = Null
    /\ foodItems = <<>>
    /\ idx = 0
    /\ results = <<>>
    /\ calls = <<>>
    /\ replies = <<>>
    /\ responses = <<>>
    /\ thrown = <<>>
    /\ other = NoOther
    /\ chats = [i \in ChatIds |-> <<>>]
    /\ isConversationSwitching = FALSE
    /\ chatError = 0
    /\ origin = 0
    /\ prevLen = [i \in ChatIds |-> 0]
    /\ conversations = <<SimConversation(1)>>
    /\ activeConversation = 1
    /\ nextId = 2
    /\ requests = 0
    /\ timers = <<>>
    /\ isLoading = FALSE

\* handleSendMessage: the closures of the timeout keep updatedConversations,
\* activeConversation and message
SimSend ==
    /\ activeConversation # 0
    /\ activeConversation \in SimIds(conversations)
    /\ (nextId - 2) + requests < MaxOps
    /\ \E text \in Contents :
        LET updated == WithUserMessage(conversations, activeConversation, requests + 1, text) IN
        /\ conversations' = updated
        /\ timers' = Append(timers, [updated |-> updated, active |-> activeConversation,
                                     n |-> requests + 1, text |-> text])
    /\ requests' = requests + 1
    /\ isLoading' = TRUE
    /\ UNCHANGED <<uvars, activeConversation, nextId>>

\* the Send button, disabled while isLoading
SimSendButton ==
    /\ ~isLoading
    /\ SimSend

\* handleKeyPress: Enter without Shift sends, whatever isLoading is
SimSendEnter ==
    \E shiftKey \in BOOLEAN :
        /\ ~shiftKey
        /\ SimSend

\* a setTimeout callback runs: it sets the list it computed from the list of
\* the moment of the send
SimReply ==
    /\ \E k \in 1..Len(timers) :
        /\ conversations' =
               WithAssistantMessage(timers[k].updated, timers[k].active, timers[k].n, timers[k].text)
        /\ timers' = [i \in 1..(Len(timers) - 1) |-> IF i < k THEN timers[i] ELSE timers[i + 1]]
    /\ isLoading' = FALSE
    /\ UNCHANGED <<uvars, activeConversation, nextId, requests>>

\* createNewConversation
SimCreate ==
    /\ (nextId - 2) + requests < MaxOps
    /\ conversations' = <<SimConversation(nextId)>> \o conversations
    /\ activeConversation' = nextId
    /\ nextId' = nextId + 1
    /\ UNCHANGED <<uvars, requests, timers, isLoading>>

\* a click on a conversation of the sidebar
SimSelect ==
    /\ \E i \in 1..Len(conversations) :
        /\ conversations[i].id # activeConversation
        /\ activeConversation' = conversations[i].id
    /\ UNCHANGED <<uvars, conversations, nextId, requests, timers, isLoading>>

\* deleteConversation; when the list becomes empty createNewConversation sets
\* [newConversation, ...conversations] with the list of the render, which
\* still holds the deleted conversation, and this later set wins
SimDelete(id) ==
    /\ id \in SimIds(conversations)
    /\ LET updated == SimFilterOut(conversations, id) IN
        IF id # activeConversation
        THEN /\ conversations' = updated
             /\ UNCHANGED <<activeConversation, nextId>>
        ELSE IF updated # <<>>
        THEN /\ conversations' = updated
             /\ activeConversation' = updated[1].id
             /\ UNCHANGED nextId
        ELSE /\ (nextId - 2) + requests < MaxOps
             /\ conversations' = <<SimConversation(nextId)>> \o conversations
             /\ activeConversation' = nextId
             /\ nextId' = nextId + 1
    /\ UNCHANGED <<uvars, requests, timers, isLoading>>

SimDeleteAny == \E id \in SimIds(conversations) : SimDelete(id)

SimNext ==
    \/ SimSendButton
    \/ SimSendEnter
    \/ SimReply
    \/ SimCreate
    \/ SimSelect
    \/ SimDeleteAny

SimSpec == SimInit /\ [][SimNext]_vars

(***************************************************************************)
(* Properties                                                              *)
(***************************************************************************)
ChatDone == endpoint = "chat" /\ pc = "done"

LastStatus == responses[Len(responses)].status
LastBody == responses[Len(responses)].body

\* the credentials the deployed route needs are set
CredentialsPresent == openaiKey /\ (route # "stream" => fdcKey)

\* the body parsed to a JSON value that can be destructured
ParsedBody == body.kind \in {"object", "scalar"}

NotAnArray == ParsedBody /\ body.messages.tag # "array"

TooLong == body.kind = "object" /\ body.messages.tag = "array" /\ Len(body.messages.items) > 50

HasAllErrorFields(b) ==
    /\ "error" \in DOMAIN b
    /\ "code" \in DOMAIN b
    /\ ("stack" \in DOMAIN b \/ "details" \in DOMAIN b)

CallKinds == {calls[k].kind : k \in 1..Len(calls)}

\* C1 as stated: whenever `messages` is not an array, the chat endpoint
\* answers with status 400.
C1_NotArrayAlways400 ==
    (ChatDone /\ NotAnArray) => (Len(responses) = 1 /\ LastStatus = 400)

\* C1: with the required credentials present, a body whose `messages` is not
\* an array (missing, null, object, string, number) is answered with exactly
\* one response, of status 400.
C1_NotArray400 ==
    (ChatDone /\ NotAnArray /\ CredentialsPresent) => (Len(responses) = 1 /\ LastStatus = 400)

C1_Witness ==
    /\ ChatDone
    /\ CredentialsPresent
    /\ body.kind = "object"
    /\ body.messages.tag = "string"
    /\ Len(responses) = 1
    /\ LastStatus = 400

\* C2 as stated: more than 50 messages always give status 400 and no
\* external call.
C2_TooManyAlways400 ==
    (endpoint = "chat" /\ TooLong) =>
        /\ calls = <<>>
        /\ pc = "done" => (Len(responses) = 1 /\ LastStatus = 400)

\* C2: a `messages` array of more than 50 entries never leads to an external
\* call; the request ends with status 400 when the required credentials are
\* present and with status 500 when they are absent.
C2_TooMany ==
    (endpoint = "chat" /\ TooLong) =>
        /\ calls = <<>>
        /\ pc \in {"received", "done"}
        /\ pc = "done" =>
            /\ Len(responses) = 1
            /\ LastStatus = IF CredentialsPresent THEN 400 ELSE 500

C2_Witness ==
    /\ ChatDone
    /\ TooLong
    /\ CredentialsPresent
    /\ calls = <<>>
    /\ LastStatus = 400

\* C3: with a required credential absent, a chat request never issues an
\* external call and ends with status 500 whatever its body is; the
\* diagnostic request without the model key issues no call and ends with 401.
C3_NoCredentialNoCall ==
    /\ (endpoint = "chat" /\ ~CredentialsPresent) =>
        /\ calls = <<>>
        /\ pc \in {"received", "done"}
        /\ pc = "done" => (Len(responses) = 1 /\ LastStatus = 500)
    /\ (endpoint = "diag" /\ ~openaiKey) =>
        /\ calls = <<>>
        /\ pc = "done"
        /\ Len(responses) = 1
        /\ LastStatus = 401

C3_Witness ==
    /\ ChatDone
    /\ openaiKey
    /\ ~fdcKey
    /\ body.kind = "object"
    /\ body.messages.tag = "array"
    /\ Len(body.messages.items) = 1
    /\ calls = <<>>
    /\ LastStatus = 500

LookupFailed == \E i \in 1..Len(thrown) : thrown[i].stage \in {"fetch", "json"}

\* C4: a failed nutrition lookup of one item is recovered locally: every item
\* is still looked up, the completion call is still issued and the request
\* does not end with an error response.
C4_LookupFailureRecovered ==
    (ChatDone /\ LookupFailed) =>
        /\ Cardinality({k \in 1..Len(calls) : calls[k].kind = "lookup"}) = Len(foodItems)
        /\ "complete" \in CallKinds
        /\ LastStatus = 200

\* C5: a failure of the extraction call or of the completion call ends the
\* request with the one status-500 error JSON, and after a failed extraction
\* call no nutrition lookup and no completion call is issued.
C5_ExtractOrCompleteFailureAborts ==
    \A i \in 1..Len(thrown) :
        thrown[i].stage \in {"extract", "complete"} =>
            /\ pc = "done"
            /\ i = Len(thrown)
            /\ Len(responses) = 1
            /\ LastStatus = 500
            /\ HasAllErrorFields(LastBody)
            /\ thrown[i].stage = "extract" => CallKinds \cap {"lookup", "complete"} = {}

C5_Witness ==
    /\ ChatDone
    /\ thrown # <<>>
    /\ thrown[Len(thrown)].stage = "extract"
    /\ "extract" \in CallKinds
    /\ LastStatus = 500

DefaultMessage == IF route = "stream" THEN <<"An error occurred">> ELSE <<"Unexpected error">>

\* C6 as stated: an error thrown by any stage, the title call included, ends
\* the request with the status-500 error JSON, whose code is the error's code
\* when it has one.
C6_AnyErrorGives500 ==
    (endpoint = "chat" /\ thrown # <<>>) =>
        LET err == thrown[Len(thrown)].err IN
        /\ pc = "done"
        /\ Len(responses) = 1
        /\ LastStatus = 500
        /\ HasAllErrorFields(LastBody)
        /\ LastBody.error = (IF err.message = <<>> THEN DefaultMessage ELSE err.message)
        /\ LastBody.code = (IF err.code.some THEN err.code.text ELSE <<"unknown_error">>)

\* C6: an error thrown by any stage other than the title call (body parsing,
\* title condition, extraction, nutrition lookup, message mapping, completion)
\* ends the request with exactly one response, of status 500, whose body has
\* the thrown message (a fixed default when it is empty), a stack/details
\* field and the error's code ('unknown_error' when the code is absent or
\* empty).
C6_StageErrorGives500 ==
    \A i \in 1..Len(thrown) :
        (endpoint = "chat" /\ thrown[i].stage # "title") =>
            LET err == thrown[i].err IN
            /\ i = Len(thrown)
            /\ pc = "done"
            /\ Len(responses) = 1
            /\ LastStatus = 500
            /\ HasAllErrorFields(LastBody)
            /\ LastBody.error = (IF err.message = <<>> THEN DefaultMessage ELSE err.message)
            /\ LastBody.code = (IF err.code.some /\ err.code.text # <<>>
                                THEN err.code.text ELSE <<"unknown_error">>)

C6_Witness ==
    /\ ChatDone
    /\ thrown # <<>>
    /\ thrown[Len(thrown)].stage = "json"
    /\ thrown[Len(thrown)].err.message = <<>>
    /\ ~thrown[Len(thrown)].err.code.some
    /\ LastStatus = 500
    /\ LastBody.code = <<"unknown_error">>

\* C7 as stated: every failure response carries an error message, a
\* stack/details field and a code.
C7_EveryFailureHasThreeFields ==
    (ChatDone /\ LastStatus \in {400, 401, 500}) => HasAllErrorFields(LastBody)

Caught == thrown # <<>> /\ thrown[Len(thrown)].stage # "title"

\* C7: every failure response of the chat endpoint has status 400 or 500 and
\* carries an error message; it also carries the stack/details field and the
\* code exactly when it comes from the top-level catch, and the validation
\* and configuration responses carry the error message only.
C7_FailureBody ==
    (ChatDone /\ LastStatus # 200) =>
        /\ LastStatus \in {400, 500}
        /\ "error" \in DOMAIN LastBody
        /\ IF Caught THEN LastStatus = 500 /\ HasAllErrorFields(LastBody)
           ELSE DOMAIN LastBody = {"error"}

C7_Witness ==
    /\ ChatDone
    /\ LastStatus = 400
    /\ DOMAIN LastBody = {"error"}
    /\ thrown = <<>>

NoMatchAtAll ==
    \A i \in 1..Len(replies) :
        (replies[i].kind = "lookup" /\ replies[i].ok) =>
            ~(replies[i].data.hasFoods /\ Len(replies[i].data.foods) > 0)

\* C8: when no extracted item has a nutrition match (also when nothing was
\* extracted), the second system message of the composed prompt is
\* 'FDA Nutrition Data:', a newline and the placeholder
\* 'No data found for input foods.'.
C8_PlaceholderWhenNoMatch ==
    \A k \in 1..Len(calls) :
        (route # "stream" /\ calls[k].kind = "complete" /\ NoMatchAtAll) =>
            /\ Len(calls[k].messages) >= 2
            /\ calls[k].messages[2].role = "system"
            /\ calls[k].messages[2].content =
                   <<"FDA Nutrition Data:", "\n", "No data found for input foods.">>

C8_Witness ==
    /\ route # "stream"
    /\ Len(foodItems) = 2
    /\ NoMatchAtAll
    /\ "complete" \in CallKinds
    /\ Cardinality({i \in 1..Len(replies) : replies[i].kind = "lookup" /\ replies[i].ok}) = 2

FirstMessageRequest ==
    /\ route = "title"
    /\ body.kind = "object"
    /\ body.messages.tag = "array"
    /\ Len(body.messages.items) = 1
    /\ ~body.messages.items[1].isNull
    /\ body.messages.items[1].role = "user"

\* C9 as stated: every successful response to a first-message request of the
\* title route has a non-empty title string.
C9_FirstMessageAlwaysTitled ==
    (ChatDone /\ FirstMessageRequest /\ LastStatus = 200) =>
        (LastBody.title.some /\ LastBody.title.text # <<>>)

Blank(c) == c \in {" ", "\n", "\t"}

\* the title call of the running request returned text with a visible character
TitleCallGaveText ==
    \E i \in 1..Len(replies) :
        /\ replies[i].kind = "title"
        /\ replies[i].ok
        /\ replies[i].content.some
        /\ \E j \in 1..Len(replies[i].content.text) : ~Blank(replies[i].content.text[j])

\* C9: a successful response to a first-message request of the title route
\* has a `title` field; it is a non-empty string without leading or trailing
\* whitespace when the title call returned non-blank text, and null when the
\* title call failed or returned null or blank content.
C9_FirstMessageTitle ==
    (ChatDone /\ FirstMessageRequest /\ LastStatus = 200) =>
        LET t == LastBody.title IN
        /\ t.some <=> TitleCallGaveText
        /\ t.some =>
            /\ t.text # <<>>
            /\ ~Blank(t.text[1])
            /\ ~Blank(t.text[Len(t.text)])

C9_Witness ==
    /\ ChatDone
    /\ FirstMessageRequest
    /\ LastStatus = 200
    /\ LastBody.title = Some(<<"T">>)
    /\ \E i \in 1..Len(replies) : replies[i].kind = "title" /\ replies[i].content = Some(<<" ", "T", " ">>)

ClientRequest == origin # 0 /\ endpoint = "chat"

RequestLen == Len(body.messages.items)

\* a request that carries more history than the previous request of its
\* conversation issues the title call only if it is the first one
TitleCallOnlyOnFirstRequest ==
    (ClientRequest /\ "title" \in CallKinds /\ RequestLen > prevLen[origin]) =>
        prevLen[origin] = 0

\* a request with more than one message issues no title call and returns
\* title null
LaterRequestHasNoTitle ==
    (ClientRequest /\ RequestLen > 1) =>
        /\ "title" \notin CallKinds
        /\ (pc = "done" /\ LastStatus = 200) => LastBody.title = Null

\* a conversation whose titleGenerated flag is set keeps its title and flag
\* for as long as it is in the list
GeneratedTitleKept ==
    \A i \in 1..Len(conversations) :
        conversations[i].titleGenerated =>
            \A j \in 1..Len(conversations') :
                conversations'[j].id = conversations[i].id =>
                    /\ conversations'[j].title = conversations[i].title
                    /\ conversations'[j].titleGenerated

IsLookup(c) == c.kind = "lookup"

LookupCalls == SelectSeq(calls, IsLookup)
LookupReplies == SelectSeq(replies, IsLookup)

\* C11: within one request the k-th search request is the one for the k-th
\* extracted item, a search request is issued only after every earlier one
\* has been answered, so at most one is in flight, and once the primary
\* completion call is issued every extracted item has had exactly one search
\* request.
C11_LookupsOneAtATime ==
    (endpoint = "chat" /\ route # "stream") =>
        /\ Len(LookupCalls) <= Len(foodItems)
        /\ \A k \in 1..Len(LookupCalls) : LookupCalls[k].query = foodItems[k]
        /\ Len(LookupCalls) - Len(LookupReplies) \in {0, 1}
        /\ (Len(LookupCalls) > Len(LookupReplies)) => pc \in {"awaitFetch", "awaitJson"}
        /\ "complete" \in CallKinds =>
            /\ Len(LookupCalls) = Len(foodItems)
            /\ Len(LookupReplies) = Len(foodItems)

C11_Witness ==
    /\ endpoint = "chat"
    /\ pc = "awaitFetch"
    /\ Len(foodItems) = 2
    /\ Len(LookupCalls) = 2
    /\ Len(LookupReplies) = 1
    /\ LookupCalls[2].query = foodItems[2]

\* position of a kind of call in the order of the stages
StageRank(kind) ==
    CASE kind = "title" -> 1
      [] kind = "extract" -> 2
      [] kind = "lookup" -> 3
      [] kind = "complete" -> 4
      [] OTHER -> 0

RepliedOk(kind) == \E k \in 1..Len(replies) : replies[k].kind = kind /\ replies[k].ok

Replied(kind) == \E k \in 1..Len(replies) : replies[k].kind = kind

\* C12: in the plain and the title route no external call is issued unless
\* validation has passed; the calls are issued in the order title,
\* extraction, lookups, completion; the extraction call is issued only after
\* the title call (if any) has ended; the completion call is issued only
\* after the extraction call has returned and every lookup of every extracted
\* item has returned; and a 200 response is produced only after the
\* completion call has returned.
C12_StagesInOrder ==
    (endpoint = "chat" /\ route # "stream") =>
        /\ calls # <<>> => Validate(route, openaiKey, fdcKey, body) = "ok"
        /\ \A i, j \in 1..Len(calls) :
            i < j => StageRank(calls[i].kind) <= StageRank(calls[j].kind)
        /\ ("title" \in CallKinds /\ "extract" \in CallKinds) => Replied("title")
        /\ "complete" \in CallKinds =>
            /\ RepliedOk("extract")
            /\ Len(LookupReplies) = Len(foodItems)
            /\ \A k \in 1..Len(LookupReplies) : LookupReplies[k].ok
        /\ (responses # <<>> /\ LastStatus = 200) => RepliedOk("complete")

C12_Witness ==
    /\ ChatDone
    /\ route = "title"
    /\ LastStatus = 200
    /\ Len(calls) = 5
    /\ calls[1].kind = "title"
    /\ calls[2].kind = "extract"
    /\ calls[3].kind = "lookup"
    /\ calls[4].kind = "lookup"
    /\ calls[5].kind = "complete"

CallCount(kind) == Cardinality({k \in 1..Len(calls) : calls[k].kind = kind})

ReplyCount(kind) == Cardinality({k \in 1..Len(replies) : replies[k].kind = kind})

\* C13: within one request the title call, the extraction call and the
\* primary completion call are each issued at most once and each is answered
\* at most once, the k-th search request is the one of the k-th extracted
\* item so that no occurrence of an item is looked up twice, and once an error has reached the top-level handler no
\* call is outstanding and the request has ended.
C13_NoRetry ==
    endpoint = "chat" =>
        /\ \A kind \in {"title", "extract", "complete"} :
            /\ CallCount(kind) <= 1
            /\ ReplyCount(kind) <= CallCount(kind)
        /\ CallCount("lookup") <= Len(foodItems)
        /\ \A k \in 1..Len(LookupCalls) : LookupCalls[k].query = foodItems[k]
        /\ ReplyCount("lookup") <= CallCount("lookup")
        /\ (\E k \in 1..Len(thrown) : thrown[k].stage # "title") =>
            /\ pc = "done"
            /\ Len(replies) = Len(calls)

C13_Witness ==
    /\ ChatDone
    /\ LastStatus = 500
    /\ thrown # <<>>
    /\ thrown[Len(thrown)].stage = "complete"
    /\ CallCount("complete") = 1
    /\ CallCount("extract") = 1
    /\ CallCount("lookup") = 2
    /\ foodItems[1] = foodItems[2]

\* C14: provided every awaited call returns or throws, a chat request that
\* has started eventually ends; a request that has not ended has produced no
\* response; a request that has ended has produced exactly one response, of
\* status 200, 400 or 500, and its handler takes no further step, so it
\* issues no further call.
C14_RunsToCompletion ==
    /\ [](endpoint = "chat" /\ pc # "done" => responses = <<>>)
    /\ [](ChatDone =>
            /\ Len(responses) = 1
            /\ LastStatus \in {200, 400, 500}
            /\ ~ENABLED HandlerStep)
    /\ (endpoint = "chat" /\ pc # "done") ~> ChatDone

C14_Witness ==
    /\ ChatDone
    /\ Len(responses) = 1
    /\ LastStatus = 200
    /\ Len(calls) = 4
    /\ Len(replies) = 4

\* the persona message, then a system message that opens the nutrition
\* section, then the caller's messages as they came
IsComposed(msgs, items) ==
    /\ Len(msgs) = Len(items) + 2
    /\ msgs[1] = Msg("system", Persona(route))
    /\ ~msgs[2].isNull
    /\ msgs[2].role = "system"
    /\ Len(msgs[2].content) >= 3
    /\ SubSeq(msgs[2].content, 1, 2) = <<"FDA Nutrition Data:", "\n">>
    /\ \A i \in 1..Len(items) : msgs[i + 2] = items[i]

CompleteCalls == {k \in 1..Len(calls) : calls[k].kind = "complete"}

\* C15 as stated: in every route the completion call receives the composed
\* list, two system messages followed by the caller's messages.
C15_ComposedInEveryRoute ==
    endpoint = "chat" =>
        \A k \in CompleteCalls : IsComposed(calls[k].messages, MessagesOf(body))

\* C15: in the plain and the title route the completion call receives the
\* persona message, the nutrition message and then the caller's messages
\* unchanged and in order, so two more than the caller sent; in the streaming
\* route it receives the caller's messages alone, with no system message
\* added.
C15_ComposedList ==
    endpoint = "chat" =>
        \A k \in CompleteCalls :
            IF route = "stream"
            THEN calls[k].messages = MessagesOf(body)
            ELSE IsComposed(calls[k].messages, MessagesOf(body))

C15_Witness ==
    /\ endpoint = "chat"
    /\ route = "plain"
    /\ CompleteCalls # {}
    /\ Len(MessagesOf(body)) = 2
    /\ MessagesOf(body)[1] # MessagesOf(body)[2]
    /\ results # <<>>
    /\ \A k \in CompleteCalls :
        /\ Len(calls[k].messages) = 4
        /\ calls[k].messages[3] = MessagesOf(body)[1]
        /\ calls[k].messages[4] = MessagesOf(body)[2]

\* the answers of the search requests that carried at least one record
FoundSome(r) == r.kind = "lookup" /\ r.ok /\ r.data.hasFoods /\ Len(r.data.foods) > 0

MatchedReplies == SelectSeq(replies, FoundSome)

\* C16: the k-th entry of the lookup result is built from the first record
\* of the k-th answer that carried a record: it holds at most 5 nutrients,
\* they are the leading nutrients of that record in their order, all of them
\* when the record has fewer than 5, and none when the record has no
\* nutrient list.
C16_FirstFiveOfFirstRecord ==
    endpoint = "chat" =>
        /\ Len(results) = Len(MatchedReplies)
        /\ \A k \in 1..Len(results) :
            LET first == MatchedReplies[k].data.foods[1]
                kept == results[k].nutrients
            IN /\ Len(kept) <= 5
               /\ IF first.hasNutrients
                  THEN /\ Len(kept) <= Len(first.foodNutrients)
                       /\ Len(kept) = 5 \/ Len(kept) = Len(first.foodNutrients)
                       /\ \A i \in 1..Len(kept) : kept[i] = first.foodNutrients[i]
                  ELSE kept = <<>>

C16_Witness ==
    /\ ChatDone
    /\ LastStatus = 200
    /\ Len(results) = 2
    /\ Len(MatchedReplies[1].data.foods) = 2
    /\ Len(MatchedReplies[1].data.foods[1].foodNutrients) > 5
    /\ Len(results[1].nutrients) = 5
    /\ ~MatchedReplies[2].data.foods[1].hasNutrients
    /\ results[2].nutrients = <<>>

\* the items among the first n extracted ones whose search carried a record
RECURSIVE MatchedItems(_)
MatchedItems(n) ==
    IF n = 0 THEN <<>>
    ELSE MatchedItems(n - 1)
            \o (IF FoundSome(LookupReplies[n]) THEN <<foodItems[n]>> ELSE <<>>)

LookupErrors == {k \in 1..Len(thrown) : thrown[k].stage \in {"fetch", "json"}}

FailedLookups == {k \in 1..Len(LookupReplies) : ~LookupReplies[k].ok}

\* C17: the items of the lookup result are, in extraction order, exactly the
\* extracted items looked up so far whose search carried at least one record,
\* an occurrence of a repeated item counting on its own; a search that
\* carried no record raises no error: the only lookup errors are those of
\* searches that threw.
C17_ResultIsMatchedSubsequence ==
    endpoint = "chat" =>
        /\ Len(LookupReplies) <= Len(foodItems)
        /\ [k \in 1..Len(results) |-> results[k].item] = MatchedItems(Len(LookupReplies))
        /\ Cardinality(LookupErrors) = Cardinality(FailedLookups)

C17_Witness ==
    /\ ChatDone
    /\ LastStatus = 200
    /\ Len(foodItems) = 2
    /\ foodItems[1] # foodItems[2]
    /\ LookupReplies[1].ok
    /\ ~FoundSome(LookupReplies[1])
    /\ FoundSome(LookupReplies[2])
    /\ Len(results) = 1
    /\ results[1].item = foodItems[2]
    /\ thrown = <<>>

\* the content of the answer of the extraction call, '' for null
ExtractReplyText ==
    LET k == CHOOSE k \in 1..Len(replies) : replies[k].kind = "extract" /\ replies[k].ok
    IN IF replies[k].content.some THEN replies[k].content.text ELSE <<>>

IsComma(c) == c = ","

NotSeparator(c) == ~IsSpace(c) /\ c # ","

\* C18: once the extraction call has returned, no extracted item is empty,
\* begins or ends with whitespace or holds a comma; there are at most as many
\* items as commas in the reply plus one; and the items, one after the other,
\* spell the reply without its commas and whitespace, so nothing is lost,
\* added or reordered.
C18_ItemsAreTrimmedPieces ==
    (endpoint = "chat" /\ RepliedOk("extract")) =>
        /\ \A k \in 1..Len(foodItems) :
            /\ foodItems[k] # <<>>
            /\ ~IsSpace(foodItems[k][1])
            /\ ~IsSpace(foodItems[k][Len(foodItems[k])])
            /\ SelectSeq(foodItems[k], IsComma) = <<>>
        /\ Len(foodItems) <= Len(SelectSeq(ExtractReplyText, IsComma)) + 1
        /\ SelectSeq(Join(foodItems, <<>>), NotSeparator) = SelectSeq(ExtractReplyText, NotSeparator)

C18_Witness ==
    /\ endpoint = "chat"
    /\ RepliedOk("extract")
    /\ ExtractReplyText = <<" ", "a", " ", ",", " ", ",", "b">>
    /\ foodItems = << <<"a">>, <<"b">> >>

\* the extraction call returned null, the empty text, or commas and
\* whitespace only
BlankReply == RepliedOk("extract") /\ SelectSeq(ExtractReplyText, NotSeparator) = <<>>

ProseReply == RepliedOk("extract") /\ ExtractReplyText = Prose

\* no item, no search request, no error from the extraction stage, and the
\* completion call has been issued
DegradesToNoItems ==
    /\ foodItems = <<>>
    /\ CallCount("lookup") = 0
    /\ \A k \in 1..Len(thrown) : thrown[k].stage \in {"title", "complete"}
    /\ CallCount("complete") = 1

\* C19 as stated: a null or empty reply, and also a reply that is a sentence
\* and not a list, gives no item and no search request.
C19_MalformedGivesNoItems ==
    (endpoint = "chat" /\ (BlankReply \/ ProseReply)) => DegradesToNoItems

\* C19: a reply of the extraction call that is null, empty, or made of
\* commas and whitespace only gives an empty item list, no search request
\* and no error, and the completion call is issued; any other reply, a list
\* of foods or not, gives at least one item, and its first piece is looked
\* up.
C19_BlankGivesNoItems ==
    endpoint = "chat" =>
        /\ BlankReply => DegradesToNoItems
        /\ (RepliedOk("extract") /\ ~BlankReply) =>
            /\ foodItems # <<>>
            /\ CallCount("lookup") >= 1
            /\ LookupCalls[1].query = foodItems[1]

C19_Witness ==
    /\ ChatDone
    /\ LastStatus = 200
    /\ \E k \in 1..Len(replies) :
        replies[k].kind = "extract" /\ replies[k].ok /\ ~replies[k].content.some
    /\ foodItems = <<>>
    /\ Len(calls) = 2
    /\ calls[1].kind = "extract"
    /\ calls[2].kind = "complete"

ExtractCalls == {k \in 1..Len(calls) : calls[k].kind = "extract"}

DiagDone == endpoint = "diag" /\ pc = "done"

\* C21: a diagnostic request without the model key ends at once with status
\* 401, success false and an error field, and issues no call; with the key it
\* issues exactly one call, the connectivity test, and ends with status 200,
\* success true and a response field when the call returned, with status 500,
\* success false and an error field when it threw; there is exactly one
\* response and its body never has both fields.
C21_DiagnosticOutcomes ==
    endpoint = "diag" =>
        /\ ~openaiKey =>
            /\ pc = "done"
            /\ calls = <<>>
            /\ LastStatus = 401
        /\ openaiKey => calls = <<DiagCall>>
        /\ pc # "done" => responses = <<>>
        /\ pc = "done" =>
            /\ Len(responses) = 1
            /\ LastStatus \in {200, 401, 500}
            /\ (LastStatus = 200) = RepliedOk("diag")
            /\ (LastStatus = 500) = (Replied("diag") /\ ~RepliedOk("diag"))
            /\ "success" \in DOMAIN LastBody
            /\ LastBody.success = (LastStatus = 200)
            /\ ("response" \in DOMAIN LastBody) = (LastStatus = 200)
            /\ ("error" \in DOMAIN LastBody) = (LastStatus # 200)

C21_Witness ==
    /\ DiagDone
    /\ openaiKey
    /\ calls = <<DiagCall>>
    /\ LastStatus = 200
    /\ LastBody.success
    /\ LastBody.response = <<"Unexpected API response">>

\* what a request produces when it is handled alone, told from its body, the
\* configuration, and what its own calls delivered
Outcome(c, r) == [calls |-> c, responses |-> r]

CaughtResponse(thr) == <<Resp(500, CatchBody(route, thr[Len(thr)].err))>>

FinalResponse(rest, t, thr) ==
    IF rest = <<>> THEN <<>>
    ELSE IF rest[1].ok THEN <<Resp(200, SuccessBody(route, t, rest[1].content))>>
    ELSE CaughtResponse(thr)

RECURSIVE AloneResults(_, _, _)
AloneResults(food, lr, k) ==
    IF k = 0 THEN <<>>
    ELSE PushResult(AloneResults(food, lr, k - 1), food[k], lr[k].data)

AloneLookups(food, k) == [i \in 1..k |-> LookupCall(food[i])]

AloneFromExtraction(items, before, r2, t, thr) ==
    LET c2 == before \o <<ExtractCall(items)>> IN
    IF r2 = <<>> THEN Outcome(c2, <<>>)
    ELSE IF ~r2[1].ok THEN Outcome(c2, CaughtResponse(thr))
    ELSE LET food == FoodItemsOf(r2[1].content)
             lr == Tail(r2)
             n == Len(food)
             answered == IF Len(lr) < n THEN Len(lr) ELSE n
         IN IF \E k \in 1..answered : ~lr[k].ok
            THEN Outcome(c2 \o AloneLookups(food, answered), CaughtResponse(thr))
            ELSE IF answered < n
            THEN Outcome(c2 \o AloneLookups(food, answered + 1), <<>>)
            ELSE Outcome(c2 \o AloneLookups(food, n)
                            \o <<CompleteCall(EnhancedMessages(route, AloneResults(food, lr, n), items))>>,
                         FinalResponse(SubSeq(lr, n + 1, Len(lr)), t, thr))

Alone(b, reps, thr) ==
    LET v == Validate(route, openaiKey, fdcKey, b)
        items == b.messages.items
        typeError == <<Resp(500, CatchBody(route, TypeError))>>
    IN IF v = "throw"
       THEN Outcome(<<>>, <<Resp(500, CatchBody(route, IF b.kind = "null" THEN TypeError ELSE SyntaxError))>>)
       ELSE IF v = "config" THEN Outcome(<<>>, <<Resp(500, ConfigErrorBody(route))>>)
       ELSE IF v = "notArray" THEN Outcome(<<>>, <<Resp(400, NotArrayBody(route))>>)
       ELSE IF v = "tooMany" THEN Outcome(<<>>, <<Resp(400, TooManyBody)>>)
       ELSE IF route = "stream"
       THEN IF \E i \in 1..Len(items) : items[i].isNull
            THEN Outcome(<<>>, typeError)
            ELSE Outcome(<<CompleteCall(items)>>, FinalResponse(reps, Null, thr))
       ELSE IF route = "title" /\ TitleCond(items) = "throw" THEN Outcome(<<>>, typeError)
       ELSE IF route = "title" /\ TitleCond(items) = "yes"
       THEN IF reps = <<>>
            THEN Outcome(<<TitleCall(items)>>, <<>>)
            ELSE AloneFromExtraction(items, <<TitleCall(items)>>, Tail(reps),
                                     IF reps[1].ok THEN TitleOf(reps[1].content) ELSE Null, thr)
       ELSE AloneFromExtraction(items, <<>>, reps, Null, thr)

AsAlone(h) ==
    h.endpoint = "chat" =>
        IF h.pc = "received"
        THEN h.calls = <<>> /\ h.responses = <<>>
        ELSE /\ h.calls = Alone(h.body, h.replies, h.thrown).calls
             /\ h.responses = Alone(h.body, h.replies, h.thrown).responses

\* C22: with the awaited steps of two requests interleaved in any order, the
\* external calls and the response of each request are at every moment the
\* ones it has when it is handled alone with the same body, the same
\* configuration and the same answers to its own calls.
C22_RequestsIndependent == AsAlone(Running) /\ AsAlone(other)

C22_Witness ==
    /\ pc = "awaitComplete"
    /\ other.pc = "awaitComplete"
    /\ body # other.body
    /\ results # <<>>
    /\ other.results # <<>>
    /\ Len(calls) > Len(other.calls)

ConfigurationError ==
    /\ LastStatus = 500
    /\ DOMAIN LastBody = {"error"}
    /\ LastBody.error \in {<<"Missing API keys">>, <<"OpenAI API key not configured">>}

\* C23: for a body that parsed, the first failing check decides the response,
\* in the order credentials, array-ness, length: with a required credential
\* absent the response is the status-500 configuration error whatever
\* `messages` is; with the credentials present a non-array gets the status-400
\* array error, and an array of more than 50 entries the status-400 limit
\* error.
C23_FirstFailingCheckDecides ==
    (ChatDone /\ ParsedBody) =>
        /\ ~CredentialsPresent => ConfigurationError
        /\ (CredentialsPresent /\ NotAnArray) =>
            /\ LastStatus = 400
            /\ LastBody \in {[error |-> <<"'messages' must be an array.">>],
                             [error |-> <<"Invalid request: 'messages' must be an array.">>]}
        /\ (CredentialsPresent /\ TooLong) =>
            /\ LastStatus = 400
            /\ LastBody = [error |-> <<"Too many messages provided. Limit to 50.">>]

C23_Witness ==
    /\ ChatDone
    /\ ~CredentialsPresent
    /\ NotAnArray
    /\ ConfigurationError
    /\ calls = <<>>

AcceptableArray ==
    /\ body.kind = "object"
    /\ body.messages.tag = "array"
    /\ Len(body.messages.items) <= 50

EmptyArray == AcceptableArray /\ body.messages.items = <<>>

\* C24: with the credentials present, a request whose `messages` is an array
\* of 0 to 50 entries is never answered with status 400; for the empty array
\* the plain and the title route go on to the extraction call, which is their
\* first call and carries undefined as the message to extract from.
C24_EmptyArrayAccepted ==
    (endpoint = "chat" /\ CredentialsPresent /\ AcceptableArray) =>
        /\ pc = "done" => LastStatus # 400
        /\ (EmptyArray /\ route # "stream" /\ pc # "received") =>
            /\ calls # <<>>
            /\ calls[1].kind = "extract"
            /\ calls[1].messages[2] = Undefined

C24_Witness ==
    /\ endpoint = "chat"
    /\ CredentialsPresent
    /\ EmptyArray
    /\ route = "title"
    /\ pc = "awaitExtract"
    /\ calls[1].messages = <<ExtractInstruction, Undefined>>

Unreadable == body.kind \in {"unparseable", "null"}

\* C25: a chat request whose body does not parse as JSON, or parses to null,
\* issues no external call and ends with exactly one response, of status 500,
\* built by the top-level catch (error, stack or details, and the code
\* 'unknown_error'), whether the credentials are present or absent.
C25_UnreadableBodyGives500 ==
    (endpoint = "chat" /\ Unreadable) =>
        /\ calls = <<>>
        /\ pc \in {"received", "done"}
        /\ pc = "done" =>
            /\ Len(responses) = 1
            /\ LastStatus = 500
            /\ HasAllErrorFields(LastBody)
            /\ LastBody.code = <<"unknown_error">>
            /\ LastBody.error \in {<<"TypeError">>, <<"SyntaxError">>}

C25_Witness ==
    /\ ChatDone
    /\ body.kind = "null"
    /\ ~openaiKey
    /\ LastStatus = 500
    /\ LastBody.code = <<"unknown_error">>

TitleCallFailed == \E k \in 1..Len(thrown) : thrown[k].stage = "title"

OneUserMessage ==
    /\ body.kind = "object"
    /\ body.messages.tag = "array"
    /\ Len(body.messages.items) = 1
    /\ ~body.messages.items[1].isNull
    /\ body.messages.items[1].role = "user"

\* C26: in the title route, once validation is over a title call has been
\* issued exactly when the credentials are present and `messages` is a list
\* of one entry whose role is user; when that call fails the error goes no
\* further: the title stays null, the extraction call is issued next, the
\* request goes on through the lookups and the completion call, a status-500
\* response can only come from a later stage, and a status-200 response
\* carries title null.
C26_TitleFailureSwallowed ==
    (endpoint = "chat" /\ route = "title") =>
        /\ pc # "received" => (("title" \in CallKinds) = (CredentialsPresent /\ OneUserMessage))
        /\ TitleCallFailed =>
            /\ title = Null
            /\ Len(calls) >= 2
            /\ calls[1].kind = "title"
            /\ calls[2].kind = "extract"
            /\ pc = "done" =>
                /\ thrown[Len(thrown)].stage = "title" => LastStatus = 200
                /\ LastStatus = 200 => (LastBody.title = Null /\ RepliedOk("complete"))

C26_Witness ==
    /\ ChatDone
    /\ route = "title"
    /\ TitleCallFailed
    /\ LastStatus = 200
    /\ LastBody.title = Null
    /\ Len(calls) = 4
    /\ calls[3].kind = "lookup"
    /\ calls[4].kind = "complete"

\* the pieces of a text between its newlines
RECURSIVE LinesFrom(_, _, _)
LinesFrom(t, i, cur) ==
    IF i > Len(t) THEN <<cur>>
    ELSE IF t[i] = "\n" THEN <<cur>> \o LinesFrom(t, i + 1, <<>>)
    ELSE LinesFrom(t, i + 1, Append(cur, t[i]))

\* the nutrition section of the composed list, after its heading
SectionBody(k) ==
    LET content == calls[k].messages[2].content IN SubSeq(content, 3, Len(content))

StartsWith(t, prefix) == Len(t) >= Len(prefix) /\ SubSeq(t, 1, Len(prefix)) = prefix

\* C27: in the composed list the nutrition section is the placeholder line
\* exactly when the lookup stage returned no entry; otherwise it has one line
\* per entry, in entry order, each beginning with the item and the arrow, and
\* the line of an entry without nutrients is the item and the arrow alone.
C27_PlaceholderOnlyWhenNoEntry ==
    (endpoint = "chat" /\ route # "stream") =>
        \A k \in CompleteCalls :
            LET lines == LinesFrom(SectionBody(k), 1, <<>>) IN
            /\ (SectionBody(k) = <<"No data found for input foods.">>) = (results = <<>>)
            /\ results # <<>> =>
                /\ Len(lines) = Len(results)
                /\ \A e \in 1..Len(results) :
                    /\ StartsWith(lines[e], results[e].item \o <<" → ">>)
                    /\ results[e].nutrients = <<>> => lines[e] = results[e].item \o <<" → ">>
                    /\ results[e].nutrients # <<>> => Len(lines[e]) > Len(results[e].item) + 1

C27_Witness ==
    /\ endpoint = "chat"
    /\ route = "plain"
    /\ CompleteCalls # {}
    /\ Len(results) = 2
    /\ results[1].nutrients = <<>>
    /\ results[2].nutrients # <<>>
    /\ \A k \in CompleteCalls :
        StartsWith(SectionBody(k), results[1].item \o <<" → ", "\n">> \o results[2].item)


\* a: every message of a is, at the same position, a message of b
KeepsMessages(a, b) ==
    /\ Len(a) <= Len(b)
    /\ \A p \in 1..Len(a) : b[p] = a[p]

\* some callback that has not run yet belongs to the message with id n
Pending(n) == \E k \in 1..Len(timers) : timers[k].n = n

\* C28: deleting the only conversation of the list leaves a list of exactly
\* one conversation, a fresh 'New conversation' without messages, which is
\* the active one, and the deleted conversation is no longer in the list.
C28_DeleteLastLeavesOneFresh ==
    [][(Len(conversations) = 1 /\ SimDelete(conversations[1].id))
        => /\ Len(conversations') = 1
           /\ conversations'[1] = SimConversation(activeConversation')
           /\ conversations[1].id \notin SimIds(conversations')]_vars

\* C29: in the simulated-reply client the active id is, in every state the
\* create, select, delete, send and reply events lead to, the id of a
\* conversation of the list.
C29_ActiveAlwaysListed == activeConversation \in SimIds(conversations)

\* C30: a reply callback removes no conversation and no message that was in
\* the list just before it ran, and so every user message whose callback has
\* run is followed by its assistant reply in the conversation it was sent in.
C30_ReplyOnlyAppends ==
    [][SimReply =>
        \A i \in 1..Len(conversations) :
            \E j \in 1..Len(conversations') :
                /\ conversations'[j].id = conversations[i].id
                /\ KeepsMessages(conversations[i].messages, conversations'[j].messages)]_vars

\* C30, second half, as a state predicate (kept as a cross-check of the first)
EveryMessageAnswered ==
    \A i \in 1..Len(conversations) :
        \A p \in 1..Len(conversations[i].messages) :
            LET m == conversations[i].messages[p] IN
            (m.role = "user" /\ ~Pending(m.id))
                => /\ p < Len(conversations[i].messages)
                   /\ conversations[i].messages[p + 1].role = "assistant"
                   /\ conversations[i].messages[p + 1].id = m.id

====
